---- MODULE Spec2Model ----
(***************************************************************************)
(* Clinical-trials demo servers: the SkyflowManager mock vault             *)
(* (skyflow_manager.py), the in-memory FastAPI backend                     *)
(* (fastapi_backend.py) and the two Redis-backed Flask backends            *)
(* (full_test_backend.py, minimal_backend.py).                             *)
(*                                                                         *)
(* Python strings that the code parses or formats (tokens, tagged values,  *)
(* sensitive field values, condition labels, Redis keys) are sequences of  *)
(* one-character strings, so that str.startswith, str.replace, str.lower,  *)
(* f-string formatting and iteration over a string are computed as Python  *)
(* computes them.                                                          *)
(***************************************************************************)
EXTENDS Integers, Sequences, FiniteSets, TLC

VARIABLES
    variant,        \* which backend file is running
    claude_client,  \* TRUE when ANTHROPIC_API_KEY was set at import
    token_store,    \* SkyflowManager.token_store : token -> original value
    token_counter,  \* SkyflowManager.token_counter
    DATA_STORE,     \* fastapi_backend.DATA_STORE : [studies, metadata]
    redis_client,   \* TRUE when the Redis ping at import succeeded
    redis,          \* the Redis server's trials:* keys : key -> [val, ttl]
    resp,           \* the response to the last completed request
    claude_calls,   \* prompts the question-answering collaborator received
    lastLoad,       \* history: the last load request, when it succeeded
    minted,         \* history: every token _generate_token returned, in order
    threads,        \* concurrent specification: per-thread handler position
    heap            \* aliasing specification: the Python objects of a caller

vars == <<variant, claude_client, redis_client, token_store, token_counter,
          DATA_STORE, redis, resp, claude_calls, lastLoad, minted, threads,
          heap>>

-----------------------------------------------------------------------------
(* Python strings                                                          *)

\* '[TOKENIZED:'
TOKENIZED == <<"[", "T", "O", "K", "E", "N", "I", "Z", "E", "D", ":">>

\* 'sky_'
SKY == <<"s", "k", "y", "_">>

\* the field width of the format spec :06d
TokenWidth == 6

DigitChar(d) == <<"0", "1", "2", "3", "4", "5", "6", "7", "8", "9">>[d + 1]

RECURSIVE Decimal(_)
\* str(n) for n >= 0
Decimal(n) ==
    IF n < 10 THEN <<DigitChar(n)>>
    ELSE Decimal(n \div 10) \o <<DigitChar(n % 10)>>

\* format(n, '06d'): zero-padded on the left to TokenWidth, never truncated
ZeroPad(n) ==
    LET d == Decimal(n)
    IN  IF Len(d) >= TokenWidth THEN d
        ELSE [i \in 1..(TokenWidth - Len(d)) |-> "0"] \o d

\* s.startswith(p)
StartsWith(s, p) == Len(s) >= Len(p) /\ SubSeq(s, 1, Len(p)) = p

RECURSIVE Remove(_, _)
\* s.replace(old, ''): every non-overlapping occurrence, left to right
Remove(s, old) ==
    IF Len(s) < Len(old) THEN s
    ELSE IF SubSeq(s, 1, Len(old)) = old
         THEN Remove(SubSeq(s, Len(old) + 1, Len(s)), old)
         ELSE <<Head(s)>> \o Remove(Tail(s), old)

\* f"[TOKENIZED:{token}]"
Tagged(token) == TOKENIZED \o token \o <<"]">>

\* value.replace('[TOKENIZED:', '').replace(']', '')
ExtractToken(s) == Remove(Remove(s, TOKENIZED), <<"]">>)

-----------------------------------------------------------------------------
(* JSON values held in a study's fields.  k is the Python type, v the      *)
(* payload: the characters of a str, the elements of a list, <<n>> for an  *)
(* int, <<b>> for a bool.  Absent is a key the dict does not have.         *)

Absent  == [k |-> "absent", v |-> <<>>]
Null    == [k |-> "null", v |-> <<>>]
Str(s)  == [k |-> "str", v |-> s]
List(l) == [k |-> "list", v |-> l]
Num(n)  == [k |-> "num", v |-> <<n>>]
Bool(b) == [k |-> "bool", v |-> <<b>>]

\* Python truthiness, as `key in d and d[key]` uses it
Truthy(x) ==
    CASE x.k \in {"absent", "null"} -> FALSE
      [] x.k \in {"str", "list"}    -> Len(x.v) > 0
      [] x.k = "num"                -> x.v[1] # 0
      [] x.k = "bool"               -> x.v[1]

\* `for e in x` is defined for lists and strings; anything else raises TypeError
Iterable(x) == x.k \in {"str", "list"}

\* the elements `for e in x` yields: a str yields its one-character strings
Elements(x) ==
    IF x.k = "str" THEN [i \in 1..Len(x.v) |-> Str(<<x.v[i]>>)] ELSE x.v

\* isinstance(x, str) and x.startswith('[TOKENIZED:')
IsTagged(x) == x.k = "str" /\ StartsWith(x.v, TOKENIZED)


-----------------------------------------------------------------------------
(* skyflow_manager.py : SkyflowManager                                     *)
(* sk is the manager's state: [token_counter, token_store, minted].        *)

\* variant of the vault insert that keeps the vault as it was
StorePut_drop(store, token, value) == store

\* self.token_store[token] = value
StorePut(store, token, value) ==
    [t \in DOMAIN store \cup {token} |-> IF t = token THEN value ELSE store[t]]

\* self.token_store.get(token, default)
StoreGet(store, token, default) ==
    IF token \in DOMAIN store THEN store[token] ELSE default

\* f"sky_{self.token_counter:06d}"
FormatToken(counter) == SKY \o ZeroPad(counter)

\* variant of _generate_token that formats the next number and leaves the
\* counter as it was
generate_token_stuck(sk) ==
    [sk    |-> [sk EXCEPT !.minted = Append(@, FormatToken(sk.token_counter + 1))],
     token |-> FormatToken(sk.token_counter + 1)]

\* def _generate_token(self): the counter is incremented, then formatted
generate_token(sk) ==
    LET c == sk.token_counter + 1
    IN  [sk    |-> [sk EXCEPT !.token_counter = c,
                              !.minted = Append(@, FormatToken(c))],
         token |-> FormatToken(c)]

\* token = self._generate_token(); self.token_store[token] = value;
\* the caller then uses f"[TOKENIZED:{token}]"
MintFor(sk, value) ==
    LET g == generate_token(sk)
    IN  [sk     |-> [g.sk EXCEPT !.token_store = StorePut(@, g.token, value)],
         tagged |-> Str(Tagged(g.token))]

RECURSIVE MintEach(_, _, _)
\* the loop `for x in items: token = ...; store[token] = x; out.append(tag)`
MintEach(items, sk, out) ==
    IF items = <<>> THEN [sk |-> sk, out |-> out]
    ELSE LET m == MintFor(sk, Head(items))
         IN  MintEach(Tail(items), m.sk, Append(out, m.tagged))

\* the block for one list field (investigators, sites) of tokenize_batch;
\* st = [ok, sk, study]; iterating a truthy non-iterable raises TypeError
TokenizeListField(st, f) ==
    IF ~st.ok \/ ~Truthy(st.study[f]) THEN st
    ELSE IF ~Iterable(st.study[f]) THEN [st EXCEPT !.ok = FALSE]
    ELSE LET m == MintEach(Elements(st.study[f]), st.sk, <<>>)
         IN  [ok |-> TRUE, sk |-> m.sk,
              study |-> [st.study EXCEPT ![f] = List(m.out)]]

\* the body of `for study in studies:` in tokenize_batch
TokenizeStudy(study, sk) ==
    LET t0 == [study EXCEPT !.skyflow_protected = Bool(TRUE)]
        s1 == IF Truthy(t0.lead_sponsor)
              THEN LET m == MintFor(sk, t0.lead_sponsor)
                   IN  [ok |-> TRUE, sk |-> m.sk,
                        study |-> [t0 EXCEPT !.lead_sponsor = m.tagged]]
              ELSE [ok |-> TRUE, sk |-> sk, study |-> t0]
    IN  TokenizeListField(TokenizeListField(s1, "investigators"), "sites")

RECURSIVE TokenizeFrom(_, _, _)
TokenizeFrom(studies, sk, out) ==
    IF studies = <<>> THEN [ok |-> TRUE, sk |-> sk, out |-> out]
    ELSE LET t == TokenizeStudy(Head(studies), sk)
         IN  IF t.ok THEN TokenizeFrom(Tail(studies), t.sk, Append(out, t.study))
             ELSE [ok |-> FALSE, sk |-> t.sk, out |-> <<>>]

\* def tokenize_batch(self, studies): [ok, sk, out]; ok = FALSE is an
\* exception raised part-way, sk then holds the mints made before it
tokenize_batch(studies, sk) == TokenizeFrom(studies, sk, <<>>)

\* one element of the detokenize loops, and the lead_sponsor branch
DetokenizeValue(x, store) ==
    IF IsTagged(x) THEN StoreGet(store, ExtractToken(x.v), x) ELSE x

\* the block for one list field of detokenize_study; st = [ok, study]
DetokenizeListField(st, f, store) ==
    IF ~st.ok \/ st.study[f].k = "absent" THEN st
    ELSE IF ~Iterable(st.study[f]) THEN [st EXCEPT !.ok = FALSE]
    ELSE LET es == Elements(st.study[f])
         IN  [st EXCEPT !.study[f] =
                 List([i \in 1..Len(es) |-> DetokenizeValue(es[i], store)])]

\* def detokenize_study(self, study): [ok, study]; ok = FALSE is a TypeError
detokenize_study(study, store) ==
    LET s1 == IF study.lead_sponsor.k = "absent" THEN study
              ELSE [study EXCEPT
                      !.lead_sponsor = DetokenizeValue(study.lead_sponsor, store)]
        s3 == DetokenizeListField(
                  DetokenizeListField([ok |-> TRUE, study |-> s1],
                                      "investigators", store),
                  "sites", store)
    IN  IF s3.ok
        THEN [s3 EXCEPT !.study.skyflow_protected = Bool(FALSE)]
        ELSE s3

\* def get_stats(self)
skyflow_get_stats(sk) ==
    [total_tokens |-> sk.token_counter, vault_size |-> Cardinality(DOMAIN sk.token_store)]

-----------------------------------------------------------------------------
(* Requests and responses                                                  *)

\* the default of the `limit` query parameter
DefaultLimit == 50

\* /ask forwards studies[:40]
SampleCap == 40

\* variant of x[:limit] that keeps the whole list
PySlice_whole(x, limit) == x

\* x[:limit], Python slicing: a negative limit counts from the end
PySlice(x, limit) ==
    IF limit >= 0
    THEN SubSeq(x, 1, IF limit < Len(x) THEN limit ELSE Len(x))
    ELSE SubSeq(x, 1, IF Len(x) + limit > 0 THEN Len(x) + limit ELSE 0)

\* min(a, b)
Min(a, b) == IF a <= b THEN a ELSE b

\* metadata = None
NoMetadata ==
    [present |-> FALSE, total_studies |-> 0, skyflow_protected |-> 0,
     condition |-> <<>>, skyflow_tokens |-> 0]

\* a response: the status, the request's parameters and the body's fields
\* (fields a handler does not send keep these defaults)
NoResp ==
    [op |-> "none", status |-> 0, condition |-> Null, limit |-> 0,
     nct_id |-> <<>>, question |-> Null, input |-> <<>>,
     studies |-> <<>>, total |-> 0, returned |-> 0, analyzed |-> 0,
     protected |-> 0, total_tokens |-> 0, vault_size |-> 0,
     metadata |-> NoMetadata]

Response(op, status) == [NoResp EXCEPT !.op = op, !.status = status]

\* history: the last load or clear request was a load that succeeded, and
\* what it sent; NoLoad otherwise
NoLoad == [ok |-> FALSE, condition |-> <<>>, studies |-> <<>>]

LoadOf(condition, studies) ==
    [ok |-> TRUE, condition |-> condition, studies |-> studies]

\* the SkyflowManager instance `skyflow`
Sk == [token_counter |-> token_counter, token_store |-> token_store,
       minted |-> minted]

SetSk(sk) ==
    /\ token_counter' = sk.token_counter
    /\ token_store' = sk.token_store
    /\ minted' = sk.minted

skyflow == <<token_store, token_counter, minted>>

config == <<variant, claude_client, redis_client>>

\* the prompt /ask builds: the two counts, json.dumps(sample) and the question
Prompt(studies, sample, question) ==
    [total |-> Len(studies), analyzing |-> Len(sample), data |-> sample,
     question |-> question]

-----------------------------------------------------------------------------
(* Bounds and inputs                                                       *)

\* tokens minted in a run (caps token_counter)
MaxTokens == 4

\* records in a load request built from a study pool
MaxBatch == 2

A == <<"A">>
B == <<"B">>
C == <<"C">>

\* the nct_id 'N<n>'
Id(n) == <<"N">> \o Decimal(n)

Study(id, sponsor, investigators, sites) ==
    [nct_id |-> id, lead_sponsor |-> sponsor, investigators |-> investigators,
     sites |-> sites, skyflow_protected |-> Absent]

SeqsUpTo(S, n) == UNION { [1..m -> S] : m \in 0..n }

\* n studies N101, N102, ... that have no designated field
Bulk(n) == [i \in 1..n |-> Study(Id(100 + i), Absent, Absent, Absent)]

\* the studies of the short load requests: one names its sponsor
PlainStudies ==
    << Study(Id(1), Str(A), Absent, Absent),
       Study(Id(2), Absent, Absent, Absent) >>

\* the studies of x at the indices I, in the order of x
Pick(x, I) ==
    [i \in 1..Cardinality(I) |->
        x[CHOOSE k \in I : Cardinality({ j \in I : j < k }) = i - 1]]

\* the request bodies' `studies`: short lists of different studies, the
\* empty one included
PlainBatches ==
    { Pick(PlainStudies, I) :
        I \in { J \in SUBSET (1..Len(PlainStudies)) : Cardinality(J) <= MaxBatch } }

\* lists around the cap of /ask
BulkBatches == { Bulk(1), Bulk(SampleCap), Bulk(SampleCap + 1) }

\* studies for the masking specification: each kind of value the
\* tokenizer branches on, in a designated field
MaskedPool ==
    { Study(Id(1), Str(A), List(<<Str(B), Str(C)>>), Absent),
      Study(Id(2), Null, Null, Absent),
      Study(Id(3), Str(<<>>), Str(B \o C), List(<<>>)),
      Study(Id(4), Str(Tagged(FormatToken(1))), Absent, List(<<Str(A)>>)),
      Study(Id(5), Str(A), Num(5), Absent) }

MaskedBatches == SeqsUpTo(MaskedPool, MaxBatch - 1)

\* condition labels
Labels == { <<"x">>, <<"Y">> }

Conditions == { Null } \cup { Str(c) : c \in Labels }

Limits == { -1, 1, DefaultLimit }

Questions == { Str(<<>>), Str(<<"q">>) }

-----------------------------------------------------------------------------
(* fastapi_backend.py                                                      *)

\* variant of the assignment that extends the list held so far
AssignStudies_merge(current, protected_studies) == current \o protected_studies

\* DATA_STORE["studies"] = protected_studies
AssignStudies(current, protected_studies) == protected_studies

\* POST /api/load.  The HTTPException(400) for an empty list is raised inside
\* the try block and caught by `except Exception`, which answers 500.
load_data(condition, studies) ==
    /\ variant = "fastapi"
    /\ claude_calls' = <<>>
    /\ UNCHANGED <<config, heap, redis, threads>>
    /\ IF studies = <<>>
       THEN /\ resp' = [Response("load", 500) EXCEPT
                           !.condition = Str(condition), !.input = studies]
            /\ lastLoad' = NoLoad
            /\ UNCHANGED <<skyflow, DATA_STORE>>
       ELSE LET t == tokenize_batch(studies, Sk)
            IN  /\ t.sk.token_counter <= MaxTokens
                /\ SetSk(t.sk)
                /\ lastLoad' = IF t.ok THEN LoadOf(condition, studies) ELSE NoLoad
                /\ IF t.ok
                   THEN /\ DATA_STORE' =
                             [studies  |-> AssignStudies(DATA_STORE.studies, t.out),
                              metadata |->
                                 [present |-> TRUE,
                                  total_studies |-> Len(studies),
                                  skyflow_protected |-> Len(t.out),
                                  condition |-> condition,
                                  skyflow_tokens |->
                                      skyflow_get_stats(t.sk).total_tokens]]
                        /\ resp' = [Response("load", 200) EXCEPT
                                       !.condition = Str(condition),
                                       !.input = studies,
                                       !.total = Len(studies),
                                       !.protected = Len(t.out)]
                   ELSE /\ DATA_STORE' = DATA_STORE
                        /\ resp' = [Response("load", 500) EXCEPT
                                       !.condition = Str(condition),
                                       !.input = studies]

\* GET /api/studies; `condition` is accepted and never used
get_studies(limit, condition) ==
    /\ variant = "fastapi"
    /\ resp' =
         IF DATA_STORE.studies = <<>>
         THEN [Response("list", 404) EXCEPT !.limit = limit,
                                            !.condition = condition]
         ELSE [Response("list", 200) EXCEPT
                  !.limit = limit, !.condition = condition,
                  !.total = Len(DATA_STORE.studies),
                  !.returned = Min(Len(DATA_STORE.studies), limit),
                  !.studies = PySlice(DATA_STORE.studies, limit)]
    /\ claude_calls' = <<>>
    /\ UNCHANGED <<config, heap, skyflow, DATA_STORE, redis, lastLoad, threads>>

\* POST /api/ask; the collaborator's call returns an answer or raises
ask_claude(question, raises) ==
    /\ variant = "fastapi"
    /\ LET studies == DATA_STORE.studies
           sample  == PySlice(studies, SampleCap)
           r       == [Response("ask", 0) EXCEPT !.question = question]
       IN  IF ~claude_client
           THEN resp' = [r EXCEPT !.status = 503] /\ claude_calls' = <<>>
           ELSE IF ~Truthy(question)
           THEN resp' = [r EXCEPT !.status = 400] /\ claude_calls' = <<>>
           ELSE IF studies = <<>>
           THEN resp' = [r EXCEPT !.status = 404] /\ claude_calls' = <<>>
           ELSE /\ claude_calls' = <<Prompt(studies, sample, question)>>
                /\ resp' = IF raises THEN [r EXCEPT !.status = 500]
                           ELSE [r EXCEPT !.status = 200,
                                          !.total = Len(studies),
                                          !.analyzed = Len(sample)]
    /\ UNCHANGED <<config, heap, skyflow, DATA_STORE, redis, lastLoad, threads>>

\* next((s for s in studies if s.get('nct_id') == nct_id), None): the index
\* of the first match, 0 for None
FindStudy(studies, nct_id) ==
    LET hits == { i \in 1..Len(studies) : studies[i].nct_id = nct_id }
    IN  IF hits = {} THEN 0
        ELSE CHOOSE i \in hits : \A j \in hits : i <= j

\* POST /api/detokenize
detokenize_endpoint(nct_id) ==
    /\ variant = "fastapi"
    /\ LET studies == DATA_STORE.studies
           i       == FindStudy(studies, nct_id)
           r       == [Response("detokenize", 0) EXCEPT !.nct_id = nct_id]
       IN  resp' =
             IF nct_id = <<>> THEN [r EXCEPT !.status = 400]
             ELSE IF studies = <<>> THEN [r EXCEPT !.status = 404]
             ELSE IF i = 0 THEN [r EXCEPT !.status = 404]
             ELSE LET d == detokenize_study(studies[i], token_store)
                  IN  IF d.ok
                      THEN [r EXCEPT !.status = 200, !.studies = <<d.study>>]
                      ELSE [r EXCEPT !.status = 500]
    /\ claude_calls' = <<>>
    /\ UNCHANGED <<config, heap, skyflow, DATA_STORE, redis, lastLoad, threads>>

\* GET /api/stats
get_stats ==
    /\ variant = "fastapi"
    /\ LET studies == DATA_STORE.studies
       IN  resp' = [Response("stats", 200) EXCEPT
                       !.total = Len(studies),
                       !.protected =
                           Cardinality({ i \in 1..Len(studies) :
                               Truthy(studies[i].skyflow_protected) }),
                       !.total_tokens = skyflow_get_stats(Sk).total_tokens,
                       !.vault_size = skyflow_get_stats(Sk).vault_size,
                       !.metadata = DATA_STORE.metadata]
    /\ claude_calls' = <<>>
    /\ UNCHANGED <<config, heap, skyflow, DATA_STORE, redis, lastLoad, threads>>

\* GET /
health_check ==
    /\ variant = "fastapi"
    /\ resp' = [Response("health", 200) EXCEPT
                   !.total = Len(DATA_STORE.studies),
                   !.metadata = DATA_STORE.metadata]
    /\ claude_calls' = <<>>
    /\ UNCHANGED <<config, heap, skyflow, DATA_STORE, redis, lastLoad, threads>>

\* variant of clear_data that keeps the metadata
clear_data_studies_only ==
    /\ variant = "fastapi"
    /\ DATA_STORE' = [DATA_STORE EXCEPT !.studies = <<>>]
    /\ resp' = Response("clear", 200)
    /\ lastLoad' = NoLoad
    /\ claude_calls' = <<>>
    /\ UNCHANGED <<config, heap, skyflow, redis, threads>>

\* variant of clear_data that empties the vault as well
clear_data_wipe ==
    /\ variant = "fastapi"
    /\ DATA_STORE' = [studies |-> <<>>, metadata |-> NoMetadata]
    /\ token_store' = <<>>
    /\ resp' = Response("clear", 200)
    /\ lastLoad' = NoLoad
    /\ claude_calls' = <<>>
    /\ UNCHANGED <<config, heap, token_counter, minted, redis, threads>>

\* DELETE /api/clear
clear_data ==
    /\ variant = "fastapi"
    /\ DATA_STORE' = [studies |-> <<>>, metadata |-> NoMetadata]
    /\ resp' = Response("clear", 200)
    /\ lastLoad' = NoLoad
    /\ claude_calls' = <<>>
    /\ UNCHANGED <<config, heap, skyflow, redis, threads>>

-----------------------------------------------------------------------------
(* The Redis server, as the redis-py calls of the Flask backends use it    *)

\* 'trials:'
TRIALS == <<"t", "r", "i", "a", "l", "s", ":">>

TRIALS_ALL == TRIALS \o <<"a", "l", "l">>

TRIALS_METADATA == TRIALS \o <<"m", "e", "t", "a", "d", "a", "t", "a">>

\* redis_client.expire(key, 3600)
CacheTTL == 3600

\* the expiration of a key that has none; <<secs>> after EXPIRE key secs
NoExpiry == <<>>

\* one character of str.lower(), for the letters the labels use
LowerChar(c) ==
    CASE c = "X" -> "x"
      [] c = "Y" -> "y"
      [] c = "A" -> "a"
      [] OTHER   -> c

\* condition.lower()
Lower(s) == [i \in 1..Len(s) |-> LowerChar(s[i])]

\* json.dumps(x) / json.loads(s): the text is kept as its parsed value
JsonDumps(x) == <<"json", x>>

JsonLoads(s) == s[2]

\* json.dumps of a dict: text that json.loads turns back into a dict
JsonDumpsDict(d) == <<"json_dict", d>>

\* json.loads(s) is a list
IsJsonList(s) == s[1] = "json"

\* SET key val: replaces the value and discards any expiration
RedisSet(db, key, val) ==
    [k \in DOMAIN db \cup {key} |->
        IF k = key THEN [val |-> val, ttl |-> NoExpiry] ELSE db[k]]

\* EXPIRE key secs
RedisExpire(db, key, secs) ==
    IF key \in DOMAIN db THEN [db EXCEPT ![key].ttl = <<secs>>] ELSE db

\* variant of KEYS trials:* that leaves out the metadata key
RedisKeys_data_only(db) ==
    { k \in DOMAIN db : StartsWith(k, TRIALS) /\ k # TRIALS_METADATA }

\* KEYS trials:*
RedisKeys(db) == { k \in DOMAIN db : StartsWith(k, TRIALS) }

\* DEL keys
RedisDelete(db, keys) == [k \in DOMAIN db \ keys |-> db[k]]

\* GET key: [found, val]
RedisGet(db, key) ==
    IF key \in DOMAIN db THEN [found |-> TRUE, val |-> db[key].val]
    ELSE [found |-> FALSE, val |-> <<>>]

SetCmd(key, val) == [c |-> "set", key |-> key, val |-> val, secs |-> 0]

ExpireCmd(key, secs) == [c |-> "expire", key |-> key, val |-> <<>>, secs |-> secs]

RECURSIVE RedisApply(_, _)
\* the write commands of one handler, in program order
RedisApply(db, cmds) ==
    IF cmds = <<>> THEN db
    ELSE RedisApply(IF Head(cmds).c = "set"
                    THEN RedisSet(db, Head(cmds).key, Head(cmds).val)
                    ELSE RedisExpire(db, Head(cmds).key, Head(cmds).secs),
                    Tail(cmds))

CacheMetadata(condition, studies) ==
    [present |-> TRUE, total_studies |-> Len(studies), skyflow_protected |-> 0,
     condition |-> condition, skyflow_tokens |-> 0]

\* the time a key was given has passed: Redis drops the key
ExpireKey(key) ==
    /\ key \in DOMAIN redis
    /\ redis[key].ttl # NoExpiry
    /\ redis' = RedisDelete(redis, {key})
    /\ UNCHANGED <<config, heap, skyflow, DATA_STORE, resp, claude_calls, lastLoad,
                   threads>>

-----------------------------------------------------------------------------
(* full_test_backend.py                                                    *)

\* the Redis writes of cache_data, in program order
full_cache_cmds(condition, studies) ==
    LET key == TRIALS \o Lower(condition)
    IN  << SetCmd(key, JsonDumps(studies)), ExpireCmd(key, CacheTTL),
           SetCmd(TRIALS_ALL, JsonDumps(studies)),
           ExpireCmd(TRIALS_ALL, CacheTTL),
           SetCmd(TRIALS_METADATA, JsonDumpsDict(CacheMetadata(condition, studies))),
           ExpireCmd(TRIALS_METADATA, CacheTTL) >>

\* POST /api/cache.  okc Redis commands succeed before the connection fails;
\* a failed command raises and `except Exception` answers 500.
full_cache_data(condition, studies, okc) ==
    /\ variant = "full_test"
    /\ LET cmds == full_cache_cmds(condition, studies)
           r    == [Response("load", 0) EXCEPT
                       !.condition = Str(condition), !.input = studies]
           st   == IF ~redis_client THEN 503
                   ELSE IF studies = <<>> THEN 400
                   ELSE IF okc < Len(cmds) THEN 500 ELSE 200
       IN  /\ okc \in 0..Len(cmds)
           /\ redis' = IF st \in {503, 400} THEN redis
                       ELSE RedisApply(redis, SubSeq(cmds, 1, okc))
           /\ resp' = IF st = 200
                      THEN [r EXCEPT !.status = 200, !.total = Len(studies)]
                      ELSE [r EXCEPT !.status = st]
           /\ lastLoad' = IF st = 200 THEN LoadOf(condition, studies)
                          ELSE NoLoad
    /\ claude_calls' = <<>>
    /\ UNCHANGED <<config, heap, skyflow, DATA_STORE, threads>>

\* the key get_studies reads: `if condition:` is false for None and for ''
full_studies_key(condition) ==
    IF Truthy(condition) THEN TRIALS \o Lower(condition.v) ELSE TRIALS_ALL

\* the body both Flask get_studies handlers share after the key is chosen;
\* `studies[:limit]` raises TypeError when the cached JSON is a dict
CacheList(key, limit, condition, up) ==
    LET r      == [Response("list", 0) EXCEPT !.limit = limit,
                                              !.condition = condition]
        cached == RedisGet(redis, key)
    IN  IF ~redis_client THEN [r EXCEPT !.status = 503]
        ELSE IF ~up THEN [r EXCEPT !.status = 500]
        ELSE IF ~cached.found THEN [r EXCEPT !.status = 404]
        ELSE IF ~IsJsonList(cached.val) THEN [r EXCEPT !.status = 500]
        ELSE LET studies == JsonLoads(cached.val)
             IN  [r EXCEPT !.status = 200,
                           !.total = Len(studies),
                           !.returned = Min(Len(studies), limit),
                           !.studies = PySlice(studies, limit)]

\* GET /api/studies; up = FALSE: the GET raises a connection error
full_get_studies(limit, condition, up) ==
    /\ variant = "full_test"
    /\ resp' = CacheList(full_studies_key(condition), limit, condition, up)
    /\ claude_calls' = <<>>
    /\ UNCHANGED <<config, heap, skyflow, DATA_STORE, redis, lastLoad, threads>>

\* variant of CacheAsk that calls the collaborator a second time when the
\* first call raises
CacheAsk_retry(question, up, raises) ==
    LET r      == [Response("ask", 0) EXCEPT !.question = question]
        cached == RedisGet(redis, TRIALS_ALL)
    IN  IF ~up THEN [resp |-> [r EXCEPT !.status = 500], calls |-> <<>>]
        ELSE IF ~cached.found
        THEN [resp |-> [r EXCEPT !.status = 404], calls |-> <<>>]
        ELSE LET studies == JsonLoads(cached.val)
                 sample  == PySlice(studies, SampleCap)
                 p       == Prompt(studies, sample, question)
             IN  [resp  |-> [r EXCEPT !.status = 200,
                                      !.total = Len(studies),
                                      !.analyzed = Len(sample)],
                  calls |-> IF raises THEN <<p, p>> ELSE <<p>>]

\* the part of both Flask ask_claude handlers after the question is read
CacheAsk(question, up, raises) ==
    LET r      == [Response("ask", 0) EXCEPT !.question = question]
        cached == RedisGet(redis, TRIALS_ALL)
    IN  IF ~up THEN [resp |-> [r EXCEPT !.status = 500], calls |-> <<>>]
        ELSE IF ~cached.found
        THEN [resp |-> [r EXCEPT !.status = 404], calls |-> <<>>]
        ELSE LET studies == JsonLoads(cached.val)
                 sample  == PySlice(studies, SampleCap)
             IN  [resp  |-> IF raises THEN [r EXCEPT !.status = 500]
                            ELSE [r EXCEPT !.status = 200,
                                           !.total = Len(studies),
                                           !.analyzed = Len(sample)],
                  calls |-> <<Prompt(studies, sample, question)>>]

\* POST /api/ask
full_ask_claude(question, up, raises) ==
    /\ variant = "full_test"
    /\ LET r == [Response("ask", 0) EXCEPT !.question = question]
           a == CacheAsk(question, up, raises)
       IN  IF ~redis_client \/ ~claude_client
           THEN resp' = [r EXCEPT !.status = 503] /\ claude_calls' = <<>>
           ELSE IF ~Truthy(question)
           THEN resp' = [r EXCEPT !.status = 400] /\ claude_calls' = <<>>
           ELSE resp' = a.resp /\ claude_calls' = a.calls
    /\ UNCHANGED <<config, heap, skyflow, DATA_STORE, redis, lastLoad, threads>>

\* the metadata a handler reads from trials:metadata (None when absent)
CachedMetadata ==
    LET m == RedisGet(redis, TRIALS_METADATA)
    IN  IF m.found THEN JsonLoads(m.val) ELSE NoMetadata

\* GET / ; a failing Redis call is swallowed and the metadata stays None
full_health_check(up) ==
    /\ variant = "full_test"
    /\ resp' = [Response("health", 200) EXCEPT
                   !.metadata = IF redis_client /\ up THEN CachedMetadata
                                ELSE NoMetadata]
    /\ claude_calls' = <<>>
    /\ UNCHANGED <<config, heap, skyflow, DATA_STORE, redis, lastLoad, threads>>

\* GET /api/cache-stats (the handler is the same in both Flask backends)
cache_stats(up) ==
    /\ variant \in {"full_test", "minimal"}
    /\ resp' = IF ~redis_client THEN Response("stats", 503)
               ELSE IF ~up THEN Response("stats", 500)
               ELSE [Response("stats", 200) EXCEPT
                        !.total = Cardinality(RedisKeys(redis)),
                        !.metadata = CachedMetadata]
    /\ claude_calls' = <<>>
    /\ UNCHANGED <<config, heap, skyflow, DATA_STORE, redis, lastLoad, threads>>

\* DELETE /api/clear: KEYS, then DEL when any key was found
full_clear_cache(up) ==
    /\ variant = "full_test"
    /\ IF ~redis_client
       THEN resp' = Response("clear", 503) /\ UNCHANGED <<redis, lastLoad>>
       ELSE IF ~up
       THEN resp' = Response("clear", 500) /\ UNCHANGED <<redis, lastLoad>>
       ELSE /\ redis' = RedisDelete(redis, RedisKeys(redis))
            /\ resp' = Response("clear", 200)
            /\ lastLoad' = NoLoad
    /\ claude_calls' = <<>>
    /\ UNCHANGED <<config, heap, skyflow, DATA_STORE, threads>>

-----------------------------------------------------------------------------
(* minimal_backend.py                                                      *)

\* the Redis writes of cache_data, in program order: no expiration, and the
\* condition is used as sent
minimal_cache_cmds(condition, studies) ==
    << SetCmd(TRIALS_ALL, JsonDumps(studies)),
       SetCmd(TRIALS \o condition, JsonDumps(studies)),
       SetCmd(TRIALS_METADATA, JsonDumpsDict(CacheMetadata(condition, studies))) >>

\* POST /api/cache: the study list is not checked for emptiness
minimal_cache_data(condition, studies, okc) ==
    /\ variant = "minimal"
    /\ LET cmds == minimal_cache_cmds(condition, studies)
           r    == [Response("load", 0) EXCEPT
                       !.condition = Str(condition), !.input = studies]
           st   == IF ~redis_client THEN 503
                   ELSE IF okc < Len(cmds) THEN 500 ELSE 200
       IN  /\ okc \in 0..Len(cmds)
           /\ redis' = IF st = 503 THEN redis
                       ELSE RedisApply(redis, SubSeq(cmds, 1, okc))
           /\ resp' = IF st = 200
                      THEN [r EXCEPT !.status = 200, !.total = Len(studies)]
                      ELSE [r EXCEPT !.status = st]
           /\ lastLoad' = IF st = 200 THEN LoadOf(condition, studies)
                          ELSE NoLoad
    /\ claude_calls' = <<>>
    /\ UNCHANGED <<config, heap, skyflow, DATA_STORE, threads>>

minimal_studies_key(condition) ==
    IF Truthy(condition) THEN TRIALS \o condition.v ELSE TRIALS_ALL

\* GET /api/studies
minimal_get_studies(limit, condition, up) ==
    /\ variant = "minimal"
    /\ resp' = CacheList(minimal_studies_key(condition), limit, condition, up)
    /\ claude_calls' = <<>>
    /\ UNCHANGED <<config, heap, skyflow, DATA_STORE, redis, lastLoad, threads>>

\* POST /api/ask: request.json['question'] is used without an emptiness check
minimal_ask_claude(question, up, raises) ==
    /\ variant = "minimal"
    /\ LET r == [Response("ask", 0) EXCEPT !.question = question]
           a == CacheAsk(question, up, raises)
       IN  IF ~redis_client \/ ~claude_client
           THEN resp' = [r EXCEPT !.status = 503] /\ claude_calls' = <<>>
           ELSE resp' = a.resp /\ claude_calls' = a.calls
    /\ UNCHANGED <<config, heap, skyflow, DATA_STORE, redis, lastLoad, threads>>

\* GET /
minimal_home ==
    /\ variant = "minimal"
    /\ resp' = Response("health", 200)
    /\ claude_calls' = <<>>
    /\ UNCHANGED <<config, heap, skyflow, DATA_STORE, redis, lastLoad, threads>>

-----------------------------------------------------------------------------
(* Specification: requests served one after another, any backend           *)

InitCommon ==
    /\ token_store = <<>>
    /\ token_counter = 0
    /\ DATA_STORE = [studies |-> <<>>, metadata |-> NoMetadata]
    /\ redis = <<>>
    /\ resp = NoResp
    /\ claude_calls = <<>>
    /\ lastLoad = NoLoad
    /\ minted = <<>>
    /\ threads = <<>>
    /\ heap = <<>>

Init ==
    /\ variant \in {"fastapi", "full_test", "minimal"}
    /\ claude_client \in BOOLEAN
    /\ redis_client \in IF variant = "fastapi" THEN {FALSE} ELSE BOOLEAN
    /\ InitCommon

Next ==
    \/ \E c \in Labels, s \in PlainBatches : load_data(c, s)
    \/ \E l \in Limits, c \in Conditions : get_studies(l, c)
    \/ \E q \in Questions, raises \in BOOLEAN : ask_claude(q, raises)
    \/ \E n \in 0..2 : detokenize_endpoint(IF n = 0 THEN <<>> ELSE Id(n))
    \/ get_stats
    \/ health_check
    \/ clear_data
    \/ \E c \in Labels, s \in PlainBatches, okc \in {0, 6} :
           full_cache_data(c, s, okc)
    \/ \E l \in Limits, c \in Conditions, up \in BOOLEAN :
           full_get_studies(l, c, up)
    \/ \E q \in Questions, up \in BOOLEAN, raises \in BOOLEAN :
           full_ask_claude(q, up, raises)
    \/ \E up \in BOOLEAN : full_health_check(up)
    \/ \E up \in BOOLEAN : cache_stats(up)
    \/ \E up \in BOOLEAN : full_clear_cache(up)
    \/ \E c \in Labels, s \in PlainBatches, okc \in {0, 3} :
           minimal_cache_data(c, s, okc)
    \/ \E l \in Limits, c \in Conditions, up \in BOOLEAN :
           minimal_get_studies(l, c, up)
    \/ \E q \in Questions, up \in BOOLEAN, raises \in BOOLEAN :
           minimal_ask_claude(q, up, raises)
    \/ minimal_home
    \/ \E k \in DOMAIN redis : ExpireKey(k)

Spec == Init /\ [][Next]_vars

-----------------------------------------------------------------------------
(* Specification: load and ask, with study lists around the cap of /ask    *)

NextAsk ==
    \/ \E c \in Labels, s \in BulkBatches : load_data(c, s)
    \/ \E q \in Questions, raises \in BOOLEAN : ask_claude(q, raises)
    \/ \E c \in Labels, s \in BulkBatches : full_cache_data(c, s, 6)
    \/ \E q \in Questions, raises \in BOOLEAN : full_ask_claude(q, TRUE, raises)
    \/ \E c \in Labels, s \in BulkBatches : minimal_cache_data(c, s, 3)
    \/ \E q \in Questions, raises \in BOOLEAN :
           minimal_ask_claude(q, TRUE, raises)

InitAsk ==
    /\ variant \in {"fastapi", "full_test", "minimal"}
    /\ claude_client \in BOOLEAN
    /\ redis_client = (variant # "fastapi")
    /\ InitCommon

SpecAsk == InitAsk /\ [][NextAsk]_vars

-----------------------------------------------------------------------------
(* Specification: the SkyflowManager behind the in-memory backend, with    *)
(* studies whose designated fields hold every kind of value                *)

\* a token this run never mints: the counter stops at MaxTokens
UnknownToken == FormatToken(MaxTokens + 1)

\* records handed to detokenize_study directly: tagged values with and
\* without a vault entry, beside the other kinds of value
UnmaskPool ==
    { Study(Id(9), sp, inv, Absent) :
        sp  \in { Str(Tagged(UnknownToken)), Str(Tagged(FormatToken(1))),
                  Str(Tagged(FormatToken(1) \o <<"]">>)), Absent },
        inv \in { Absent, Null,
                  List(<<Str(Tagged(UnknownToken)), Str(B)>>) } }

\* skyflow.detokenize_study(study) called on any record; status 200 stands
\* for a returned record, 500 for a raised exception
detokenize_call(study) ==
    /\ variant = "fastapi"
    /\ LET d == detokenize_study(study, token_store)
       IN  resp' = IF d.ok
                   THEN [Response("unmask", 200) EXCEPT
                            !.input = <<study>>, !.studies = <<d.study>>]
                   ELSE [Response("unmask", 500) EXCEPT !.input = <<study>>]
    /\ claude_calls' = <<>>
    /\ UNCHANGED <<config, heap, skyflow, DATA_STORE, redis, lastLoad, threads>>

NextMask ==
    \/ \E s \in MaskedBatches : load_data(<<"x">>, s)
    \/ \E n \in 0..6 : detokenize_endpoint(IF n = 0 THEN <<>> ELSE Id(n))
    \/ \E s \in UnmaskPool : detokenize_call(s)
    \/ get_stats
    \/ clear_data

InitMask ==
    /\ variant = "fastapi"
    /\ claude_client = TRUE
    /\ redis_client = FALSE
    /\ InitCommon

SpecMask == InitMask /\ [][NextMask]_vars

-----------------------------------------------------------------------------
(* Specification: the in-memory backend serving two requests at once.      *)
(* FastAPI runs the `def` handlers on a thread pool and neither the        *)
(* handlers nor SkyflowManager take a lock, so a thread can be preempted   *)
(* between any two accesses to shared state.  threads[t] is the position   *)
(* and the local variables of worker t; a step is one access to the shared *)
(* SkyflowManager or DATA_STORE, together with the local computation that  *)
(* follows it.                                                             *)

Workers == {1, 2}

FieldNames == <<"lead_sponsor", "investigators", "sites">>

Idle ==
    [pc |-> "idle", condition |-> <<>>, studies |-> <<>>, rest |-> <<>>,
     cur |-> <<>>, out |-> <<>>, f |-> 0, items |-> <<>>, acc |-> <<>>,
     tmp |-> 0, token |-> <<>>, total |-> 0, protected |-> 0,
     total_tokens |-> 0, vault_size |-> 0]

RECURSIVE EnterField(_, _)
RECURSIVE NextStudy(_)
\* tokenize_batch from the `if` of designated field number f of th.cur up
\* to the next call of _generate_token
EnterField(th, f) ==
    IF f > Len(FieldNames)
    THEN NextStudy([th EXCEPT !.out = Append(@, th.cur), !.rest = Tail(@)])
    ELSE LET x == th.cur[FieldNames[f]]
         IN  IF ~Truthy(x) THEN EnterField(th, f + 1)
             ELSE IF f > 1 /\ ~Iterable(x) THEN [th EXCEPT !.pc = "raise"]
             ELSE [th EXCEPT !.pc = "read", !.f = f, !.acc = <<>>,
                             !.items = IF f = 1 THEN <<x>> ELSE Elements(x)]

\* `for study in studies:` : the next study, or the return to load_data
NextStudy(th) ==
    IF th.rest = <<>> THEN [th EXCEPT !.pc = "studies"]
    ELSE EnterField(
             [th EXCEPT !.cur = [Head(th.rest) EXCEPT
                                    !.skyflow_protected = Bool(TRUE)]], 1)

\* after self.token_store[token] = value: the tagged value is kept and the
\* loop over the field goes on, or the field is assigned and the next begins
AfterMint(th) ==
    LET acc == Append(th.acc, Str(Tagged(th.token)))
    IN  IF Tail(th.items) # <<>>
        THEN [th EXCEPT !.pc = "read", !.items = Tail(@), !.acc = acc,
                        !.token = <<>>]
        ELSE EnterField(
                 [th EXCEPT !.items = <<>>, !.acc = <<>>, !.token = <<>>,
                            !.cur[FieldNames[th.f]] =
                                IF th.f = 1 THEN acc[1] ELSE List(acc)],
                 th.f + 1)

\* the mints a batch asks for
MintsNeeded(studies) ==
    tokenize_batch(studies,
        [token_counter |-> 0, token_store |-> <<>>, minted |-> <<>>]
    ).sk.token_counter

RECURSIVE SumNeeded(_)
SumNeeded(W) ==
    IF W = {} THEN 0
    ELSE LET t == CHOOSE t \in W : TRUE
         IN  MintsNeeded(threads[t].studies) + SumNeeded(W \ {t})

\* a worker picks up POST /api/load
load_data_begin(t, condition, studies) ==
    /\ variant = "fastapi"
    /\ threads[t].pc = "idle"
    /\ token_counter + SumNeeded(Workers) + MintsNeeded(studies) <= MaxTokens
    /\ IF studies = <<>>
       THEN /\ resp' = [Response("load", 500) EXCEPT
                           !.condition = Str(condition), !.input = studies]
            /\ UNCHANGED threads
       ELSE LET th == NextStudy([Idle EXCEPT !.condition = condition,
                                             !.studies = studies,
                                             !.rest = studies])
            IN  IF th.pc = "raise"
                THEN /\ resp' = [Response("load", 500) EXCEPT
                                    !.condition = Str(condition),
                                    !.input = studies]
                     /\ UNCHANGED threads
                ELSE /\ threads' = [threads EXCEPT ![t] = th]
                     /\ UNCHANGED resp
    /\ UNCHANGED <<config, heap, skyflow, DATA_STORE, redis, claude_calls, lastLoad>>

\* self.token_counter += 1, the read of the attribute
generate_token_read(t) ==
    /\ threads[t].pc = "read"
    /\ threads' = [threads EXCEPT ![t].tmp = token_counter, ![t].pc = "write"]
    /\ UNCHANGED <<config, heap, skyflow, DATA_STORE, redis, resp, claude_calls,
                   lastLoad>>

\* self.token_counter += 1, the store of the sum
generate_token_write(t) ==
    /\ threads[t].pc = "write"
    /\ token_counter' = threads[t].tmp + 1
    /\ threads' = [threads EXCEPT ![t].pc = "format", ![t].tmp = 0]
    /\ UNCHANGED <<config, heap, token_store, minted, DATA_STORE, redis, resp,
                   claude_calls, lastLoad>>

\* return f"sky_{self.token_counter:06d}", which reads the attribute again
generate_token_format(t) ==
    /\ threads[t].pc = "format"
    /\ minted' = Append(minted, FormatToken(token_counter))
    /\ threads' = [threads EXCEPT ![t].token = FormatToken(token_counter),
                                  ![t].pc = "put"]
    /\ UNCHANGED <<config, heap, token_store, token_counter, DATA_STORE, redis,
                   resp, claude_calls, lastLoad>>

\* self.token_store[token] = value
token_store_put(t) ==
    /\ threads[t].pc = "put"
    /\ token_store' =
           StorePut(token_store, threads[t].token, Head(threads[t].items))
    /\ LET th == AfterMint(threads[t])
       IN  IF th.pc = "raise"
           THEN /\ resp' = [Response("load", 500) EXCEPT
                               !.condition = Str(th.condition),
                               !.input = th.studies]
                /\ threads' = [threads EXCEPT ![t] = Idle]
           ELSE /\ threads' = [threads EXCEPT ![t] = th]
                /\ UNCHANGED resp
    /\ UNCHANGED <<config, heap, token_counter, minted, DATA_STORE, redis,
                   claude_calls, lastLoad>>

\* DATA_STORE["studies"] = protected_studies
store_studies(t) ==
    /\ threads[t].pc = "studies"
    /\ DATA_STORE' = [DATA_STORE EXCEPT
                         !.studies = AssignStudies(@, threads[t].out)]
    /\ threads' = [threads EXCEPT ![t].pc = "metadata"]
    /\ UNCHANGED <<config, heap, skyflow, redis, resp, claude_calls, lastLoad>>

\* DATA_STORE["metadata"] = {...}, and the return of load_data
store_metadata(t) ==
    /\ threads[t].pc = "metadata"
    /\ DATA_STORE' = [DATA_STORE EXCEPT !.metadata =
           [present |-> TRUE,
            total_studies |-> Len(threads[t].studies),
            skyflow_protected |-> Len(threads[t].out),
            condition |-> threads[t].condition,
            skyflow_tokens |-> skyflow_get_stats(Sk).total_tokens]]
    /\ resp' = [Response("load", 200) EXCEPT
                   !.condition = Str(threads[t].condition),
                   !.input = threads[t].studies,
                   !.total = Len(threads[t].studies),
                   !.protected = Len(threads[t].out)]
    /\ threads' = [threads EXCEPT ![t] = Idle]
    /\ UNCHANGED <<config, heap, skyflow, redis, claude_calls, lastLoad>>

\* a worker picks up GET /api/stats: skyflow_stats = skyflow.get_stats()
get_stats_begin(t) ==
    /\ variant = "fastapi"
    /\ threads[t].pc = "idle"
    /\ threads' = [threads EXCEPT ![t] =
           [Idle EXCEPT !.pc = "stats_studies",
                        !.total_tokens = skyflow_get_stats(Sk).total_tokens,
                        !.vault_size = skyflow_get_stats(Sk).vault_size]]
    /\ UNCHANGED <<config, heap, skyflow, DATA_STORE, redis, resp, claude_calls,
                   lastLoad>>

\* studies = DATA_STORE["studies"] and the two counts over it
get_stats_studies(t) ==
    /\ threads[t].pc = "stats_studies"
    /\ LET studies == DATA_STORE.studies
       IN  threads' = [threads EXCEPT
               ![t].pc = "stats_metadata",
               ![t].total = Len(studies),
               ![t].protected =
                   Cardinality({ i \in 1..Len(studies) :
                       Truthy(studies[i].skyflow_protected) })]
    /\ UNCHANGED <<config, heap, skyflow, DATA_STORE, redis, resp, claude_calls,
                   lastLoad>>

\* "metadata": DATA_STORE["metadata"], and the return of get_stats
get_stats_metadata(t) ==
    /\ threads[t].pc = "stats_metadata"
    /\ resp' = [Response("stats", 200) EXCEPT
                   !.total = threads[t].total,
                   !.protected = threads[t].protected,
                   !.total_tokens = threads[t].total_tokens,
                   !.vault_size = threads[t].vault_size,
                   !.metadata = DATA_STORE.metadata]
    /\ threads' = [threads EXCEPT ![t] = Idle]
    /\ UNCHANGED <<config, heap, skyflow, DATA_STORE, redis, claude_calls, lastLoad>>

ConcPool == { Study(Id(1), Str(A), List(<<Str(B)>>), Absent) }

ConcBatches == SeqsUpTo(ConcPool, MaxBatch)

NextConc ==
    \/ \E t \in Workers, s \in ConcBatches : load_data_begin(t, <<"x">>, s)
    \/ \E t \in Workers : generate_token_read(t)
    \/ \E t \in Workers : generate_token_write(t)
    \/ \E t \in Workers : generate_token_format(t)
    \/ \E t \in Workers : token_store_put(t)
    \/ \E t \in Workers : store_studies(t)
    \/ \E t \in Workers : store_metadata(t)
    \/ \E t \in Workers : get_stats_begin(t)
    \/ \E t \in Workers : get_stats_studies(t)
    \/ \E t \in Workers : get_stats_metadata(t)

InitConc ==
    /\ variant = "fastapi"
    /\ claude_client = TRUE
    /\ redis_client = FALSE
    /\ token_store = <<>>
    /\ token_counter = 0
    /\ DATA_STORE = [studies |-> <<>>, metadata |-> NoMetadata]
    /\ redis = <<>>
    /\ resp = NoResp
    /\ claude_calls = <<>>
    /\ lastLoad = NoLoad
    /\ minted = <<>>
    /\ threads = [t \in Workers |-> Idle]
    /\ heap = <<>>

SpecConc == InitConc /\ [][NextConc]_vars

-----------------------------------------------------------------------------
(* Specification: tokenize_batch on Python objects.  heap is the sequence  *)
(* of the objects allocated so far, an object's address is its index.  A   *)
(* dict object is [k |-> "dict", v |-> its fields], a list object is       *)
(* List(elements); a field or element that holds a dict or a list is a     *)
(* reference Ref(address), so that two names can denote one object and an  *)
(* assignment through one is seen through the other.                       *)

\* objects the caller and tokenize_batch may allocate in a run
MaxHeap == 10

Ref(a) == [k |-> "ref", v |-> <<a>>]

Dict(fields) == [k |-> "dict", v |-> fields]

\* the value a field or element denotes: the list object behind a reference
Deref(h, x) == IF x.k = "ref" THEN h[x.v[1]] ELSE x

\* h with the object obj allocated at the next address
Alloc(h, obj) == Append(h, obj)

\* the caller builds one study dict: a list value becomes a list object
AllocStudy(h, study) ==
    LET fs == <<"investigators", "sites">>
        ls == { i \in 1..2 : study[fs[i]].k = "list" }
        h1 == IF 1 \in ls THEN Alloc(h, study.investigators) ELSE h
        h2 == IF 2 \in ls THEN Alloc(h1, study.sites) ELSE h1
    IN  Alloc(h2, Dict([study EXCEPT
               !.investigators = IF 1 \in ls THEN Ref(Len(h1)) ELSE @,
               !.sites = IF 2 \in ls THEN Ref(Len(h2)) ELSE @]))

RECURSIVE AllocStudies(_, _, _)
\* the caller builds the list `studies`: the dicts, then the list of them
AllocStudies(h, studies, refs) ==
    IF studies = <<>> THEN Alloc(h, List(refs))
    ELSE LET h1 == AllocStudy(h, Head(studies))
         IN  AllocStudies(h1, Tail(studies), Append(refs, Ref(Len(h1))))

\* variant of study.copy() that returns the caller's dict itself
CopyStudy_alias(h, a) == [h |-> h, d |-> a]

\* tokenized = study.copy(): a new dict with the same field values, the
\* references to the caller's lists among them
CopyStudy(h, a) == [h |-> Alloc(h, h[a]), d |-> Len(h) + 1]

\* the block for one list field on the heap; st = [ok, sk, h, d], d the
\* address of `tokenized`.  The tagged values go to a new list object and
\* the field is assigned a reference to it.
HeapTokenizeListField(st, f) ==
    LET x == IF st.ok THEN Deref(st.h, st.h[st.d].v[f]) ELSE Null
    IN  IF ~st.ok \/ ~Truthy(x) THEN st
        ELSE IF ~Iterable(x) THEN [st EXCEPT !.ok = FALSE]
        ELSE LET m  == MintEach(Elements(x), st.sk, <<>>)
                 h1 == Alloc(st.h, List(m.out))
             IN  [st EXCEPT !.sk = m.sk,
                            !.h = [h1 EXCEPT ![st.d].v[f] = Ref(Len(h1))]]

\* the body of `for study in studies:` on the heap; a is the study's address
HeapTokenizeStudy(h, a, sk) ==
    LET c  == CopyStudy(h, a)
        h0 == [c.h EXCEPT ![c.d].v.skyflow_protected = Bool(TRUE)]
        sp == h0[c.d].v.lead_sponsor
        s1 == IF Truthy(sp)
              THEN LET m == MintFor(sk, sp)
                   IN  [ok |-> TRUE, sk |-> m.sk, d |-> c.d,
                        h |-> [h0 EXCEPT ![c.d].v.lead_sponsor = m.tagged]]
              ELSE [ok |-> TRUE, sk |-> sk, d |-> c.d, h |-> h0]
    IN  HeapTokenizeListField(HeapTokenizeListField(s1, "investigators"),
                              "sites")

RECURSIVE HeapTokenizeFrom(_, _, _, _)
\* the loop over the caller's list; out is the address of tokenized_studies
HeapTokenizeFrom(refs, h, sk, out) ==
    IF refs = <<>> THEN [ok |-> TRUE, sk |-> sk, h |-> h, out |-> out]
    ELSE LET t == HeapTokenizeStudy(h, Head(refs).v[1], sk)
         IN  IF t.ok
             THEN HeapTokenizeFrom(Tail(refs),
                      [t.h EXCEPT ![out].v = Append(@, Ref(t.d))], t.sk, out)
             ELSE [ok |-> FALSE, sk |-> t.sk, h |-> t.h, out |-> out]

\* tokenize_batch(studies) on the heap, studies the address of the list
HeapTokenizeBatch(h, studies, sk) ==
    LET h0 == Alloc(h, List(<<>>))
    IN  HeapTokenizeFrom(h[studies].v, h0, sk, Len(h0))

\* the lists of study dicts on the heap: what a caller can pass
StudyLists(h) ==
    { a \in 1..Len(h) :
        /\ h[a].k = "list"
        /\ h[a].v # <<>>
        /\ \A i \in 1..Len(h[a].v) :
              h[a].v[i].k = "ref" /\ h[h[a].v[i].v[1]].k = "dict" }

\* the values the objects denote, for comparison with the handlers' view
RECURSIVE ValueOf(_, _)
ValueOf(h, x) ==
    IF x.k = "ref" THEN ValueOf(h, h[x.v[1]])
    ELSE IF x.k = "dict"
    THEN [f \in DOMAIN x.v |->
            IF f = "nct_id" THEN x.v[f] ELSE ValueOf(h, x.v[f])]
    ELSE IF x.k = "list" THEN List([i \in 1..Len(x.v) |-> ValueOf(h, x.v[i])])
    ELSE x

\* the list at an address as the sequence of its studies' values
StudiesAt(h, a) == [i \in 1..Len(h[a].v) |-> ValueOf(h, h[a].v[i])]

\* a caller passes one of its lists to skyflow.tokenize_batch; the response
\* records the argument's address, the result's address and the heap the
\* call started from
tokenize_batch_call(studies) ==
    /\ variant = "fastapi"
    /\ studies \in StudyLists(heap)
    /\ LET t == HeapTokenizeBatch(heap, studies, Sk)
       IN  /\ t.sk.token_counter <= MaxTokens
           /\ Len(t.h) <= MaxHeap
           /\ SetSk(t.sk)
           /\ heap' = t.h
           /\ resp' = [Response("mask", IF t.ok THEN 200 ELSE 500) EXCEPT
                          !.input = <<studies>>,
                          !.studies = IF t.ok THEN <<t.out>> ELSE <<>>]
    /\ claude_calls' = <<>>
    /\ UNCHANGED <<config, DATA_STORE, redis, lastLoad, threads>>

\* the block for one list field of detokenize_study on the heap;
\* st = [ok, h, d], d the address of `detokenized`
HeapDetokenizeListField(st, f, store) ==
    LET x == IF st.ok THEN Deref(st.h, st.h[st.d].v[f]) ELSE Null
    IN  IF ~st.ok \/ x.k = "absent" THEN st
        ELSE IF ~Iterable(x) THEN [st EXCEPT !.ok = FALSE]
        ELSE LET es == Elements(x)
                 h1 == Alloc(st.h,
                          List([i \in 1..Len(es) |-> DetokenizeValue(es[i], store)]))
             IN  [st EXCEPT !.h = [h1 EXCEPT ![st.d].v[f] = Ref(Len(h1))]]

\* detokenize_study(study) on the heap, study the address of the dict
HeapDetokenizeStudy(h, study, store) ==
    LET c  == CopyStudy(h, study)
        sp == c.h[c.d].v.lead_sponsor
        h1 == IF sp.k = "absent" THEN c.h
              ELSE [c.h EXCEPT ![c.d].v.lead_sponsor = DetokenizeValue(sp, store)]
        s3 == HeapDetokenizeListField(
                  HeapDetokenizeListField([ok |-> TRUE, h |-> h1, d |-> c.d],
                                          "investigators", store),
                  "sites", store)
    IN  IF s3.ok
        THEN [s3 EXCEPT !.h[c.d].v.skyflow_protected = Bool(FALSE)]
        ELSE s3

\* a caller passes one of its dicts to skyflow.detokenize_study
detokenize_study_call(study) ==
    /\ variant = "fastapi"
    /\ study \in { a \in 1..Len(heap) : heap[a].k = "dict" }
    /\ LET t == HeapDetokenizeStudy(heap, study, token_store)
       IN  /\ Len(t.h) <= MaxHeap
           /\ heap' = t.h
           /\ resp' = [Response("unmask_object", IF t.ok THEN 200 ELSE 500)
                          EXCEPT !.input = <<study>>,
                                 !.studies = IF t.ok THEN <<t.d>> ELSE <<>>]
    /\ claude_calls' = <<>>
    /\ UNCHANGED <<config, skyflow, DATA_STORE, redis, lastLoad, threads>>

NextAlias ==
    \/ \E a \in 1..MaxHeap : tokenize_batch_call(a)
    \/ \E a \in 1..MaxHeap : detokenize_study_call(a)

InitAlias ==
    /\ variant = "fastapi"
    /\ claude_client = TRUE
    /\ redis_client = FALSE
    /\ token_store = <<>>
    /\ token_counter = 0
    /\ DATA_STORE = [studies |-> <<>>, metadata |-> NoMetadata]
    /\ redis = <<>>
    /\ resp = NoResp
    /\ claude_calls = <<>>
    /\ lastLoad = NoLoad
    /\ minted = <<>>
    /\ threads = <<>>
    /\ heap \in { AllocStudies(<<>>, s, <<>>) : s \in MaskedBatches \ {<<>>} }

SpecAlias == InitAlias /\ [][NextAlias]_vars

-----------------------------------------------------------------------------
(* Specification: the cache-backed backends with a Redis connection that   *)
(* can fail before any command of a load, so that every state between two  *)
(* commands of cache_data is a state the cache is left in                  *)

CmdBatches == { s \in PlainBatches : Len(s) <= 1 }

NextCmd ==
    \/ \E c \in Labels, s \in CmdBatches :
           \E okc \in 0..Len(full_cache_cmds(c, s)) :
               full_cache_data(c, s, okc)
    \/ \E l \in Limits, c \in Conditions, up \in BOOLEAN :
           full_get_studies(l, c, up)
    \/ \E up \in BOOLEAN : full_clear_cache(up)
    \/ \E c \in Labels, s \in CmdBatches :
           \E okc \in 0..Len(minimal_cache_cmds(c, s)) :
               minimal_cache_data(c, s, okc)
    \/ \E l \in Limits, c \in Conditions, up \in BOOLEAN :
           minimal_get_studies(l, c, up)
    \/ \E k \in DOMAIN redis : ExpireKey(k)

InitCmd ==
    /\ variant \in {"full_test", "minimal"}
    /\ claude_client = FALSE
    /\ redis_client = TRUE
    /\ InitCommon

SpecCmd == InitCmd /\ [][NextCmd]_vars

-----------------------------------------------------------------------------
(* Specification: full_test_backend with the condition labels that name    *)
(* the keys cache_data itself writes                                       *)

\* labels whose key is trials:all and trials:metadata, next to the others
KeyLabels == Labels \cup { <<"a", "l", "l">>,
                           <<"m", "e", "t", "a", "d", "a", "t", "a">> }

NextLabel ==
    \/ \E c \in KeyLabels, s \in CmdBatches \ {<<>>} :
           full_cache_data(c, s, Len(full_cache_cmds(c, s)))
    \/ \E l \in Limits, c \in KeyLabels : full_get_studies(l, Str(c), TRUE)
    \/ \E l \in Limits : full_get_studies(l, Null, TRUE)
    \/ full_clear_cache(TRUE)
    \/ \E k \in DOMAIN redis : ExpireKey(k)

InitLabel ==
    /\ variant = "full_test"
    /\ claude_client = FALSE
    /\ redis_client = TRUE
    /\ InitCommon

SpecLabel == InitLabel /\ [][NextLabel]_vars

-----------------------------------------------------------------------------
(* Properties                                                              *)

DesignatedFields == {"lead_sponsor", "investigators", "sites"}

\* equality of two JSON values, the type first
SameValue(x, y) == x.k = y.k /\ x.v = y.v

\* the nct_ids of a list of studies, in order
Ids(studies) == [i \in 1..Len(studies) |-> studies[i].nct_id]

Distinct(s) == \A i, j \in 1..Len(s) : i # j => s[i] # s[j]

IsPrefix(s, t) == Len(s) <= Len(t) /\ SubSeq(t, 1, Len(s)) = s

\* the non-empty values of the designated fields of a study: lead_sponsor
\* itself, the elements of investigators and of sites
SensitiveValues(study) ==
    (IF Truthy(study.lead_sponsor) THEN {study.lead_sponsor} ELSE {})
    \cup UNION { IF Truthy(study[f]) /\ Iterable(study[f])
                 THEN { Elements(study[f])[i] : i \in 1..Len(Elements(study[f])) }
                 ELSE {} : f \in {"investigators", "sites"} }

\* the study lists the Store holds: DATA_STORE["studies"] and the value of
\* every trials:* key but the metadata
StoredBatches ==
    {DATA_STORE.studies}
    \cup { JsonLoads(redis[k].val) : k \in RedisKeys(redis) \ {TRIALS_METADATA} }

\* the token a tagged value '[TOKENIZED:<token>]' carries
TagToken(s) == SubSeq(s, Len(TOKENIZED) + 1, Len(s) - 1)

\* x is a tagged value whose token has no vault entry
UnknownTagged(x) ==
    /\ IsTagged(x)
    /\ x.v[Len(x.v)] = "]"
    /\ TagToken(x.v) \notin DOMAIN token_store

\* C1 (as stated; the code violates it): a detokenize request for a record
\* of the batch just loaded answers 200 and every designated field of the
\* record it returns equals the value the load request sent
C1_RoundTrip ==
    (/\ resp.op = "detokenize"
     /\ lastLoad.ok
     /\ FindStudy(lastLoad.studies, resp.nct_id) # 0)
    => /\ resp.status = 200
       /\ \A f \in DesignatedFields :
            SameValue(resp.studies[1][f],
                      lastLoad.studies[FindStudy(lastLoad.studies, resp.nct_id)][f])

\* C2: run one after another, tokenize_batch calls never mint a token that
\* was minted before, keep the tokens minted so far, and never lower
\* token_counter
C2_TokenUniqueness ==
    [][/\ Distinct(minted')
       /\ IsPrefix(minted, minted')
       /\ token_counter' >= token_counter]_vars

\* three tokens were minted by loads, the last of which succeeded
C2_Witness ==
    /\ Len(minted) >= 3
    /\ token_counter >= 3
    /\ resp.op = "load"
    /\ resp.status = 200

\* C3 (as stated; the code violates it): with loads running at once, no two
\* mints return the same token
C3_AtomicMint == Distinct(minted)

C5_EmptyLoad400 ==
    (/\ resp.op = "load" /\ resp.input = <<>>
     /\ variant \in {"full_test", "minimal"} => redis_client)
    => resp.status = 400

\* C6 (as stated; the code violates it): a load request with an empty list
\* leaves the batch, the metadata, the vault, the counter and the Redis keys
\* as they were
C6_EmptyLoadNoChange ==
    [][(resp' # resp /\ resp'.op = "load" /\ resp'.input = <<>>)
       => UNCHANGED <<DATA_STORE, redis, token_store, token_counter>>]_vars

\* C7 (as stated; the code violates it): no non-empty value of a designated
\* field of the batch just loaded is held in the Store
C7_StoreMasked ==
    lastLoad.ok =>
      \A b \in StoredBatches : \A i \in 1..Len(b), j \in 1..Len(lastLoad.studies) :
         \A x \in SensitiveValues(b[i]), y \in SensitiveValues(lastLoad.studies[j]) :
            ~SameValue(x, y)

\* C8: an /ask request answered 200 after a load of N records reports
\* total N and analyzed min(40, N), and has sent the collaborator one prompt,
\* which holds the first min(40, N) records of the load in order
C8_SampleCap ==
    (resp.op = "ask" /\ resp.status = 200 /\ lastLoad.ok)
    => LET N == Len(lastLoad.studies)
       IN  /\ resp.total = N
           /\ resp.analyzed = Min(SampleCap, N)
           /\ Len(claude_calls) = 1
           /\ claude_calls[1].total = N
           /\ Ids(claude_calls[1].data)
                = Ids(SubSeq(lastLoad.studies, 1, Min(SampleCap, N)))

\* an /ask answered over a batch one record longer than the cap
C8_Witness ==
    /\ resp.op = "ask" /\ resp.status = 200 /\ lastLoad.ok
    /\ Len(lastLoad.studies) = SampleCap + 1
    /\ resp.analyzed = SampleCap
    /\ Len(claude_calls[1].data) = SampleCap

\* C9 (as stated; the code violates it): with a load running beside it, a
\* stats request reports a record total equal to metadata.total_studies
C9_NoPartialBatch ==
    (resp.op = "stats" /\ resp.status = 200 /\ resp.metadata.present)
    => resp.total = resp.metadata.total_studies

\* C10 (as stated; the code violates it): detokenize_study called with a
\* record that has a tagged value without a vault entry, in lead_sponsor or
\* as an element of investigators, returns, and returns that value unchanged
C10_UnknownTokenInert ==
    resp.op = "unmask" =>
      LET study == resp.input[1]
      IN  /\ UnknownTagged(study.lead_sponsor)
             => /\ resp.status = 200
                /\ SameValue(resp.studies[1].lead_sponsor, study.lead_sponsor)
          /\ \A i \in 1..(IF study.investigators.k = "list"
                          THEN Len(study.investigators.v) ELSE 0) :
                UnknownTagged(study.investigators.v[i])
                => /\ resp.status = 200
                   /\ SameValue(resp.studies[1].investigators.v[i],
                                study.investigators.v[i])

\* the tagged values held in the designated fields of a study: lead_sponsor
\* itself, the elements of investigators and of sites
TaggedValues(study) ==
    (IF IsTagged(study.lead_sponsor) THEN {study.lead_sponsor} ELSE {})
    \cup UNION { IF study[f].k = "list"
                 THEN { study[f].v[i] : i \in { j \in 1..Len(study[f].v) :
                                                  IsTagged(study[f].v[j]) } }
                 ELSE {} : f \in {"investigators", "sites"} }

\* the vault entry of the token a stored tagged value carries is `original`
VaultHolds(x, original) ==
    /\ IsTagged(x)
    /\ TagToken(x.v) \in DOMAIN token_store
    /\ SameValue(token_store[TagToken(x.v)], original)

\* stored is the masked form of original: the flag is set, every non-empty
\* designated value is replaced by tagged tokens whose vault entries are
\* the values replaced, one per element for the list fields
MaskedFrom(stored, original) ==
    /\ Truthy(original.lead_sponsor)
       => VaultHolds(stored.lead_sponsor, original.lead_sponsor)
    /\ \A f \in {"investigators", "sites"} :
          Truthy(original[f]) =>
             /\ stored[f].k = "list"
             /\ Len(stored[f].v) = Len(Elements(original[f]))
             /\ \A j \in 1..Len(stored[f].v) :
                   VaultHolds(stored[f].v[j], Elements(original[f])[j])

\* C11: on the in-memory variant, after any loads, clears and detokenize
\* requests, every token in a designated field of a stored record has a
\* vault entry, and while the batch of the last load is held that entry is
\* the value the token replaced
C11_VaultCoverage ==
    /\ \A i \in 1..Len(DATA_STORE.studies) :
          \A x \in TaggedValues(DATA_STORE.studies[i]) :
             x.v[Len(x.v)] = "]" /\ TagToken(x.v) \in DOMAIN token_store
    /\ lastLoad.ok =>
          /\ Len(DATA_STORE.studies) = Len(lastLoad.studies)
          /\ \A i \in 1..Len(lastLoad.studies) :
                MaskedFrom(DATA_STORE.studies[i], lastLoad.studies[i])

\* a stored record holds a tagged sponsor and two tagged investigators
\* after a later request
C11_Witness ==
    /\ resp.op \in {"detokenize", "unmask", "clear", "stats"}
    /\ \E i \in 1..Len(DATA_STORE.studies) :
          /\ IsTagged(DATA_STORE.studies[i].lead_sponsor)
          /\ DATA_STORE.studies[i].investigators.k = "list"
          /\ Len(DATA_STORE.studies[i].investigators.v) = 2

\* C12: run one after another, no load, clear or detokenize request removes
\* or changes a vault entry, the vault holds as many entries as tokens were
\* minted, and get_stats reports vault_size equal to total_tokens
C12_VaultOnlyGrows ==
    [][/\ \A t \in DOMAIN token_store :
             /\ t \in DOMAIN token_store'
             /\ SameValue(token_store'[t], token_store[t])
       /\ Cardinality(DOMAIN token_store') = token_counter'
       /\ resp'.op = "stats" => resp'.vault_size = resp'.total_tokens]_vars

\* get_stats answered after a clear that followed loads minting three tokens
C12_Witness ==
    /\ resp.op = "stats"
    /\ resp.vault_size >= 3
    /\ resp.total_tokens = resp.vault_size
    /\ DATA_STORE.studies = <<>>

\* every stored record carries the flag and tagged values in place of the
\* non-empty designated values of the load, one per element
StoredProtected ==
    lastLoad.ok =>
       /\ Len(DATA_STORE.studies) = Len(lastLoad.studies)
       /\ \A i \in 1..Len(lastLoad.studies) :
             LET stored   == DATA_STORE.studies[i]
                 original == lastLoad.studies[i]
             IN  /\ SameValue(stored.skyflow_protected, Bool(TRUE))
                 /\ Truthy(original.lead_sponsor) => IsTagged(stored.lead_sponsor)
                 /\ \A f \in {"investigators", "sites"} :
                       Truthy(original[f]) =>
                          /\ stored[f].k = "list"
                          /\ Len(stored[f].v) = Len(Elements(original[f]))
                          /\ \A j \in 1..Len(stored[f].v) : IsTagged(stored[f].v[j])

\* C13 (as stated; the code violates it): after a successful load every
\* stored record is flagged and tagged, and a detokenize request for the id
\* of a stored record answers with a copy that has the original designated
\* values and the flag false
C13_EndToEndProtection ==
    /\ StoredProtected
    /\ (/\ resp.op = "detokenize"
        /\ lastLoad.ok
        /\ FindStudy(lastLoad.studies, resp.nct_id) # 0)
       => /\ resp.status = 200
          /\ SameValue(resp.studies[1].skyflow_protected, Bool(FALSE))
          /\ \A f \in DesignatedFields :
                SameValue(resp.studies[1][f],
                          lastLoad.studies[FindStudy(lastLoad.studies,
                                                     resp.nct_id)][f])

\* C14: a call of tokenize_batch leaves every object that existed before it
\* as it was (the caller's list, its records and the lists their fields
\* hold); the list it returns and the records in it are new objects, and
\* they denote the values the handlers store
C14_MaskKeepsInput ==
    [][(resp'.op = "mask" /\ heap' # heap) =>
          /\ Len(heap') > Len(heap)
          /\ \A a \in 1..Len(heap) : heap'[a] = heap[a]
          /\ resp'.status = 200 =>
                LET out == resp'.studies[1]
                IN  /\ out > Len(heap)
                    /\ \A i \in 1..Len(heap'[out].v) :
                          heap'[out].v[i].v[1] > Len(heap)
                    /\ StudiesAt(heap', out)
                         = tokenize_batch(StudiesAt(heap, resp'.input[1]), Sk).out
      ]_vars

\* tokenize_batch returned for a record whose investigators is a list: the
\* result's record holds a new list of tagged values, the caller's record
\* still holds its own list of untagged values
C14_Witness ==
    /\ resp.op = "mask" /\ resp.status = 200
    /\ \E i \in 1..Len(heap[resp.input[1]].v) :
          LET a == heap[resp.input[1]].v[i].v[1]
              d == heap[resp.studies[1]].v[i].v[1]
          IN  /\ a # d
              /\ heap[a].v.investigators.k = "ref"
              /\ heap[d].v.investigators.k = "ref"
              /\ heap[d].v.investigators # heap[a].v.investigators
              /\ ~IsTagged(heap[heap[a].v.investigators.v[1]].v[1])
              /\ IsTagged(heap[heap[d].v.investigators.v[1]].v[1])

\* C15 (as stated; the code violates it): a list request answered 200
\* returns at most `limit` records, a prefix of the current batch in load
\* order, and `returned` is the number of records in the response
C15_ListResult ==
    (resp.op = "list" /\ resp.status = 200) =>
       /\ Len(resp.studies) <= resp.limit
       /\ resp.returned = Len(resp.studies)
       /\ (lastLoad.ok /\ (variant = "fastapi" \/ ~Truthy(resp.condition)))
          => IsPrefix(Ids(resp.studies), Ids(lastLoad.studies))

\* C16: on the in-memory variant, with requests run one after another, the
\* metadata is absent exactly when no batch is held and otherwise counts
\* the records held; a successful load sets its label, and nothing but a
\* successful load or a clear changes the metadata
C16_MetadataTracksLoad ==
    [][variant = "fastapi" =>
          LET meta == DATA_STORE'.metadata
              loaded == resp'.op = "load" /\ resp'.status = 200
          IN  /\ meta.present <=> DATA_STORE'.studies # <<>>
              /\ meta.present => meta.total_studies = Len(DATA_STORE'.studies)
              /\ loaded => /\ meta.present
                           /\ meta.condition = resp'.condition.v
                           /\ meta.total_studies = Len(resp'.input)
              /\ meta # DATA_STORE.metadata
                 => loaded \/ (resp'.op = "clear" /\ ~meta.present)
      ]_vars

\* stats answered while the one-record batch loaded under label Y is held:
\* the metadata it reports is that of this load
C16_Witness ==
    /\ variant = "fastapi"
    /\ resp.op = "stats"
    /\ resp.metadata.present
    /\ resp.metadata.condition = <<"Y">>
    /\ resp.metadata.total_studies = 1
    /\ resp.total = 1
    /\ lastLoad.ok /\ lastLoad.condition = <<"Y">>

\* C17: a clear request is answered 200 whatever is stored (503 or 500 only
\* when the cache server is not configured or not reachable); after a clear
\* answered 200 no batch, no metadata and no trials:* key is left; a clear
\* answered 200 right after another changes nothing
C17_ClearIdempotent ==
    [][resp'.op = "clear" =>
          /\ resp'.status \in {200, 503, 500}
          /\ variant = "fastapi" => resp'.status = 200
          /\ resp'.status = 200 =>
                /\ DATA_STORE'.studies = <<>>
                /\ ~DATA_STORE'.metadata.present
                /\ \A k \in DOMAIN redis' : ~StartsWith(k, TRIALS)
          /\ (resp.op = "clear" /\ resp.status = 200 /\ resp'.status = 200)
             => UNCHANGED <<DATA_STORE, redis, token_store, token_counter>>
      ]_vars

\* a clear answered 200 on the in-memory variant after a load that minted
\* a token: the batch and the metadata are gone
C17_Witness ==
    /\ variant = "fastapi"
    /\ resp.op = "clear" /\ resp.status = 200
    /\ minted # <<>>
    /\ DATA_STORE.studies = <<>>
    /\ ~DATA_STORE.metadata.present

\* the batch a list or ask request finds: the in-memory batch, or the list
\* decoded from the Redis key the request reads (empty when it is missing)
HeldBatch(op, condition) ==
    IF variant = "fastapi" THEN DATA_STORE.studies
    ELSE LET key == IF op = "ask" THEN TRIALS_ALL
                    ELSE IF variant = "full_test"
                    THEN full_studies_key(condition)
                    ELSE minimal_studies_key(condition)
             cached == RedisGet(redis, key)
         IN  IF cached.found THEN JsonLoads(cached.val) ELSE <<>>

\* C18 (as stated; the code violates it): a list or ask request made while
\* no record is held for the key it reads is never answered 200, so no 200
\* answer reports an empty batch
C18_NotFoundWhenNoBatch ==
    [][(/\ resp'.op \in {"list", "ask"}
        /\ UNCHANGED <<DATA_STORE, redis>>
        /\ HeldBatch(resp'.op, resp'.condition) = <<>>)
       => resp'.status # 200]_vars

\* C19 (as stated; the code violates it): every trials:* key in Redis has
\* an expiration of at most CacheTTL seconds, also in the states a load
\* leaves between two of its commands
C19_WritesExpire ==
    \A k \in RedisKeys(redis) :
        /\ redis[k].ttl # NoExpiry
        /\ redis[k].ttl[1] <= CacheTTL

\* C20 (as stated; the code violates it): a load, list or ask request of a
\* cache-backed variant that is valid and made while the cache server is
\* not configured, or while a Redis command of the request fails, is
\* answered 503
C20_Unavailable503 ==
    [][/\ (/\ variant \in {"full_test", "minimal"}
           /\ ~redis_client
           /\ resp' # resp
           /\ resp'.op \in {"load", "list", "ask"})
          => resp'.status = 503
       /\ \A l \in Limits, c \in Conditions :
             (full_get_studies(l, c, FALSE) \/ minimal_get_studies(l, c, FALSE))
             => resp'.status = 503
       /\ \A q \in { x \in Questions : Truthy(x) }, raises \in BOOLEAN :
             (full_ask_claude(q, FALSE, raises)
              \/ minimal_ask_claude(q, FALSE, raises))
             => resp'.status = 503
       /\ \A c \in Labels, s \in PlainBatches \ {<<>>} :
             \/ \E okc \in 0..(Len(full_cache_cmds(c, s)) - 1) :
                   full_cache_data(c, s, okc)
             \/ \E okc \in 0..(Len(minimal_cache_cmds(c, s)) - 1) :
                   minimal_cache_data(c, s, okc)
             => resp'.status = 503
      ]_vars

\* C21: an ask request calls the question-answering collaborator at most
\* once; when that call raises, the request is answered 500 and the batch,
\* the metadata, the Redis keys, the vault and the counter stay as they
\* were; after such an answer the server can still take a request
C21_NoRetryNoCrash ==
    /\ [][/\ Len(claude_calls') <= 1
          /\ \A q \in Questions :
                (/\ \/ ask_claude(q, TRUE)
                    \/ \E up \in BOOLEAN : full_ask_claude(q, up, TRUE)
                    \/ \E up \in BOOLEAN : minimal_ask_claude(q, up, TRUE)
                 /\ claude_calls' # <<>>)
                => /\ resp'.status = 500
                   /\ UNCHANGED <<DATA_STORE, redis, token_store,
                                  token_counter>>
         ]_vars
    /\ []((resp.op = "ask" /\ resp.status = 500) => ENABLED Next)

\* an ask on the in-memory variant whose one call to the collaborator
\* raised, answered 500, with a masked batch and its vault still in place
C21_Witness ==
    /\ variant = "fastapi"
    /\ resp.op = "ask" /\ resp.status = 500
    /\ Len(claude_calls) = 1
    /\ DATA_STORE.studies # <<>>
    /\ token_store # <<>>

\* C22 (as stated; the code violates it): with the collaborators
\* configured, an ask request whose question is empty is answered 400 and
\* makes no call to the question-answering collaborator, on every backend
C22_EmptyQuestion400 ==
    (/\ resp.op = "ask"
     /\ ~Truthy(resp.question)
     /\ claude_client
     /\ variant \in {"full_test", "minimal"} => redis_client)
    => /\ resp.status = 400
       /\ claude_calls = <<>>

\* the values a non-empty lead_sponsor can be exchanged for
AltSponsor(x) == IF Truthy(x) THEN {x, Str(C)} ELSE {x}

\* a non-empty list exchanged for another list of the same length
AltList(x) ==
    IF x.k = "list" /\ Len(x.v) > 0
    THEN {x, List([i \in 1..Len(x.v) |-> Str(C)])}
    ELSE {x}

\* the records that differ from `study` only in the values of non-empty
\* designated fields
AltStudies(study) ==
    { [study EXCEPT !.lead_sponsor = sp, !.investigators = iv, !.sites = st] :
        sp \in AltSponsor(study.lead_sponsor),
        iv \in AltList(study.investigators),
        st \in AltList(study.sites) }

\* the batches of the same record count that differ from `studies` only in
\* such values
AltBatches(studies) ==
    { b \in [1..Len(studies) -> UNION { AltStudies(studies[i]) :
                                          i \in 1..Len(studies) }] :
        \A i \in 1..Len(studies) : b[i] \in AltStudies(studies[i]) }

\* the batch a successful load of `studies` stores when made in this state
StoredBy(studies) ==
    IF variant = "fastapi" THEN tokenize_batch(studies, Sk).out
    ELSE JsonLoads(JsonDumps(studies))

\* C23 (as stated; the code violates it): a load answered 200 stores the
\* batch that a load of any batch differing only in the values of non-empty
\* designated fields would have stored from the same state, so the prompt
\* an ask then builds is the same for both
C23_PromptIndependent ==
    [][\A c \in Labels, s \in PlainBatches \cup MaskedBatches :
          (/\ \/ load_data(c, s)
              \/ full_cache_data(c, s, Len(full_cache_cmds(c, s)))
              \/ minimal_cache_data(c, s, Len(minimal_cache_cmds(c, s)))
           /\ resp'.status = 200)
          => \A b \in AltBatches(s), q \in Questions :
                /\ HeldBatch("ask", Null)' = StoredBy(b)
                /\ Prompt(HeldBatch("ask", Null)',
                          PySlice(HeldBatch("ask", Null)', SampleCap), q)
                   = Prompt(StoredBy(b), PySlice(StoredBy(b), SampleCap), q)
      ]_vars

\* C24 (as stated; the code violates it): on the in-memory variant a load
\* request answered with an error leaves the batch, the metadata, the vault
\* and the token counter as they were
C24_FailedLoadNoChange ==
    [][(/\ variant = "fastapi"
        /\ resp'.op = "load"
        /\ resp'.status # 200)
       => UNCHANGED <<DATA_STORE, token_store, token_counter>>]_vars

\* C25 (as stated; the code violates it): on full_test_backend, while the
\* key of the last successful load's label C is unexpired, a list request
\* with condition C and a limit that is not negative is answered 200 with
\* the first min(limit, |R|) records of the batch R that load sent
C25_ReadYourWrites ==
    [][\A l \in Limits, c \in KeyLabels :
          (/\ full_get_studies(l, Str(c), TRUE)
           /\ l >= 0
           /\ lastLoad.ok
           /\ lastLoad.condition = c
           /\ TRIALS \o Lower(c) \in DOMAIN redis)
          => /\ resp'.status = 200
             /\ resp'.studies =
                   SubSeq(lastLoad.studies, 1, Min(l, Len(lastLoad.studies)))
      ]_vars

\* C26 (as stated; the code violates it): on full_test_backend, whenever
\* trials:metadata exists, trials:all exists too and holds exactly
\* metadata.total_studies records, those of the last successful load when
\* its label is metadata.condition
C26_KeysConsistent ==
    (variant = "full_test" /\ TRIALS_METADATA \in DOMAIN redis)
    => /\ TRIALS_ALL \in DOMAIN redis
       /\ LET metadata == JsonLoads(redis[TRIALS_METADATA].val)
              studies  == JsonLoads(redis[TRIALS_ALL].val)
          IN  /\ Len(studies) = metadata.total_studies
              /\ lastLoad.ok => /\ metadata.condition = lastLoad.condition
                                /\ studies = lastLoad.studies

\* C27: a detokenize request, answered 200 or with an error, leaves every
\* object that existed before it as it was (the masked records with their
\* flag true and the lists their fields hold), and the batch, the metadata,
\* the vault and the token counter unchanged; what it returns is a new record
C27_DetokenizeReadOnly ==
    [][resp'.op = "unmask_object" =>
          /\ \A a \in 1..Len(heap) : heap'[a] = heap[a]
          /\ UNCHANGED <<DATA_STORE, token_store, token_counter>>
          /\ resp'.status = 200 => resp'.studies[1] > Len(heap)
      ]_vars

\* detokenize_study returned for a masked record: the record it was given
\* still has its flag true and its tagged sponsor, the copy has the flag
\* false and the original value
C27_Witness ==
    /\ resp.op = "unmask_object" /\ resp.status = 200
    /\ LET a == resp.input[1]
           d == resp.studies[1]
       IN  /\ a # d
           /\ heap[a].v.skyflow_protected = Bool(TRUE)
           /\ IsTagged(heap[a].v.lead_sponsor)
           /\ heap[d].v.skyflow_protected = Bool(FALSE)
           /\ ~IsTagged(heap[d].v.lead_sponsor)
           /\ token_store # <<>>

=============================================================================
